---- MODULE Spec2Model ----
(***************************************************************************)
(* Backend execution subsystem of MetadataPublisher.                       *)
(*                                                                         *)
(*   Spec       NativeRWorker (src/src/modules/cover.ts): the supervisor   *)
(*              of the native R subprocess, its line protocol, and the R   *)
(*              side of that protocol (the bootstrap dependencies.R and    *)
(*              the try(...) wrapper around every expression).             *)
(*   SpecCache  the DDI tree cache (src/unnamed/part_007, first module).   *)
(***************************************************************************)
EXTENDS Integers, Sequences, FiniteSets, TLC

\* ------------------------------------------------------------- bounds
\* Subprocesses of one NativeRWorker object that exist at the same time: the
\* one this.proc refers to and earlier ones whose 'exit' / 'error' event or
\* init timer is still to come.
MaxProcs == 2
\* Correlation ids one subprocess instance is given.
MaxReqs == 2
\* Entries of the raw list the normalizer is given.
MaxKeys == 4
\* Calls of loadCodebookFile.
MaxLoads == 2
\* Runs of initWebR.
MaxInits == 2

VARIABLES
    \* fields of NativeRWorker (cover.ts:51-58); 0 stands for null
    proc,           \* this.proc: the slot of the subprocess
    reader,         \* this.reader: the slot of the subprocess whose stdout it reads
    pending,        \* this.pending: set of <<id, index into requests>>
    nextId,         \* this.nextId
    readyPromise,   \* this.readyPromise: the slot of the future
    readyResolve,   \* the future this.readyResolve settles
    readyReject,    \* the future this.readyReject settles
    initialized,    \* this.initialized
    \* the world around the object
    procs,          \* slot -> the subprocess spawned into it
    futures,        \* slot -> the promise start() made with it, and its init timer
    stdin,          \* lines written to the read subprocess and not yet evaluated
    requests,       \* the promises evalR* returned for the latest subprocess
    emitted,        \* the promise settlements the last handler made
    lastOp          \* the handler that ran last, and what it returned or whose it was

wvars == <<proc, reader, pending, nextId, readyPromise, readyResolve, readyReject,
           initialized, procs, futures, stdin, requests, emitted, lastOp>>

VARIABLES
    \* what computeSignature() reads (part_007:32-48)
    appVersion,     \* String(app.getVersion())
    pkgData,        \* library.data.gz
    pkgMeta,        \* library.js.metadata
    \* the cache directory (part_007:15-30)
    files,          \* meta.json, tree.json, elements.json
    sameBuild,      \* tree.json and elements.json hold no JSON of different calls
    \* the calls of getOrBuildDDITree
    call,           \* the call that awaits its buildFn, if any
    last            \* the call that returned last

cvars == <<appVersion, pkgData, pkgMeta, files, sameBuild, call, last>>

VARIABLES
    \* one run of the normalizer (utils.R:37-110)
    raw,            \* the raw value it is given
    normOp,         \* the function that ran: "element", "children", "codebook"
    node,           \* the node normalize_element / normalize_codebook returned
    out             \* the list normalize_children returned

nvars == <<raw, normOp, node, out>>

VARIABLES
    \* the orchestrator (main.ts:417-451)
    settings,           \* the stored backendMode: "unset", "native", "webr"
    nativeRscriptPath,  \* TRUE: a path; FALSE: null
    booting,
    webRInitPromise,    \* 0: null; otherwise the run of initWebR it follows
    webRInitialized,
    runs,               \* the runs of initWebR: "pending", "resolved", "rejected"
    ops,                \* the startup (0) and the calls of loadCodebookFile
    started,            \* app.whenReady() has run
    discovered,         \* findNativeRscript found an executable
    spawned,            \* a native process was spawned at some time
    chosen              \* the mode in force at launch, then the user's last choice

ovars == <<settings, nativeRscriptPath, booting, webRInitPromise, webRInitialized,
           runs, ops, started, discovered, spawned, chosen>>

VARIABLES
    \* the embedded engine (main.ts:444) and the loads that go through it
    hostfile,       \* /hostfile in the engine's file system: "absent", "empty"
                    \* (a directory, nothing mounted on it), or the host
                    \* directory mounted on it
    codeBook,       \* the variable codeBook of R's global environment
    viaWebR,        \* the calls of loadCodebookViaWebR
    channel         \* the requests sent to the engine and not yet served

evars == <<hostfile, codeBook, viaWebR, channel>>

Slots == 1..MaxProcs

\* ------------------------------------------------------------- protocol lines
\* The "missing" member of a decoded line: absent, a string, or an array.
NoMissing == [tag |-> "absent", val |-> <<>>]
MissingStr(s) == [tag |-> "str", val |-> <<s>>]
MissingArr(a) == [tag |-> "arr", val |-> a]

\* A line of the subprocess's stdout. wf: "empty" (the empty string), "text"
\* (not JSON), "json". id = 0 stands for a payload with no numeric id.
Line(wf, type, status, id, missing) ==
    [wf |-> wf, type |-> type, status |-> status, id |-> id, missing |-> missing]

NoLine == Line("none", "none", "none", 0, NoMissing)
InitOkLine == Line("json", "init", "ok", 0, NoMissing)
InitErrorLine(missing) == Line("json", "init", "error", 0, missing)
ResponseLine(id, status) == Line("json", "none", status, id, NoMissing)

\* dependencies.R:2
packages == <<"jsonlite", "DDIwR">>

Range(seq) == {seq[i] : i \in DOMAIN seq}

SeqRestrict(seq, S) == SelectSeq(seq, LAMBDA x : x \in S)

\* dependencies.R:2-53 run by a non-interactive R that lacks the packages in
\* `missingPkgs`: the lines it prints and whether R halts on an error.
\* jsonlite::toJSON itself fails when jsonlite is one of the missing packages.
Bootstrap(missingPkgs) ==
    IF missingPkgs # {}
    THEN IF "jsonlite" \in missingPkgs
         THEN [out |-> <<>>, halts |-> TRUE]
         ELSE [out |-> <<InitErrorLine(MissingArr(SeqRestrict(packages, missingPkgs)))>>,
               halts |-> FALSE]
    ELSE [out |-> <<InitOkLine>>, halts |-> FALSE]

\* What R prints for one wrapped expression (cover.ts:160, 177):
\* try(({ expr ; cat(toJSON(list(id=, status="ok" ...))) }), silent=TRUE).
\* A failing expression leaves the block before cat() and try() swallows it.
Wrapped(id, fails) ==
    IF fails THEN <<>> ELSE <<ResponseLine(id, "ok")>>

\* ------------------------------------------------------------- worker state
\* The handlers below are written over a record of the whole state, so that
\* stop(), cleanup() and rejectAllPending() compose as they do in the code.
W == [proc |-> proc, reader |-> reader, pending |-> pending, nextId |-> nextId,
      readyPromise |-> readyPromise, readyResolve |-> readyResolve,
      readyReject |-> readyReject, initialized |-> initialized,
      procs |-> procs, futures |-> futures, stdin |-> stdin,
      requests |-> requests, emitted |-> {}]

\* What is left in the stdin of a subprocess nobody reads is never seen again.
Commit(s, op) ==
    /\ proc' = s.proc
    /\ reader' = s.reader
    /\ pending' = s.pending
    /\ nextId' = s.nextId
    /\ readyPromise' = s.readyPromise
    /\ readyResolve' = s.readyResolve
    /\ readyReject' = s.readyReject
    /\ initialized' = s.initialized
    /\ procs' = s.procs
    /\ futures' = s.futures
    /\ stdin' = IF s.reader = 0 THEN <<>> ELSE s.stdin
    /\ requests' = s.requests
    /\ emitted' = s.emitted
    /\ lastOp' = op
    /\ UNCHANGED <<cvars, nvars, ovars, evars>>

Op(name, ret) == [op |-> name, ret |-> ret, fails |-> FALSE]

\* One settlement of a promise: of the future of a start() (kind "start",
\* idx its slot) or of a request (kind "eval", idx its index in requests, 0
\* for a request that was never registered).
Settlement(kind, idx, state, missing, err) ==
    [kind |-> kind, idx |-> idx, state |-> state, missing |-> missing, err |-> err]

\* Settling a start() future. A settled promise ignores later settlements;
\* readyPromise.finally(() => clearTimeout(initTimeout)) (cover.ts:107)
\* cancels the timer of the future that settles.
SettleFuture(s, f, state, missing, msg) ==
    IF f = 0 \/ s.futures[f].state # "pending"
    THEN s
    ELSE [s EXCEPT !.futures[f] = [state |-> state, timer |-> "off"],
                   !.emitted = @ \cup {Settlement("start", f, state, missing, msg)}]

\* Settling the promise of request r.
SettleRequest(s, r, state, err) ==
    IF s.requests[r].state # "pending"
    THEN s
    ELSE [s EXCEPT !.requests[r].state = state,
                   !.emitted = @ \cup {Settlement("eval", r, state, <<>>, err)}]

\* cover.ts:217-222
RECURSIVE RejectEach(_, _, _)
RejectEach(s, entries, error) ==
    IF entries = {} THEN s
    ELSE LET e == CHOOSE x \in entries : TRUE
         IN RejectEach(SettleRequest(s, e[2], "rejected", error), entries \ {e}, error)

rejectAllPending_ClearOnly(s, error) ==
    [s EXCEPT !.pending = {}]

rejectAllPending(s, error) ==
    [RejectEach(s, s.pending, error) EXCEPT !.pending = {}]

cleanup_KeepsInitialized(s) ==
    [s EXCEPT !.proc = 0, !.readyPromise = 0,
              !.readyResolve = 0, !.readyReject = 0, !.reader = 0]

cleanup_KeepsPromise(s) ==
    [s EXCEPT !.proc = 0, !.initialized = FALSE, !.reader = 0]

\* cover.ts:224-234
cleanup(s) ==
    [s EXCEPT !.proc = 0, !.initialized = FALSE, !.readyPromise = 0,
              !.readyResolve = 0, !.readyReject = 0, !.reader = 0]

\* ChildProcess.kill(): signals a running process, which then dies and
\* later reports 'exit'; on a process that is gone it does nothing. The
\* process states: "running", "exiting" (dead, 'exit' not yet delivered),
\* "failed" (not spawned, 'error' not yet delivered), "gone".
Kill(st) == IF st = "running" THEN "exiting" ELSE st

stop_CleanupOnly(s) ==
    LET k == IF s.proc # 0
             THEN [s EXCEPT !.procs[s.proc] = Kill(@)]
             ELSE s
    IN cleanup(k)

\* cover.ts:209-215. proc.killed is set only by a kill() of a running
\* process, after which kill() does nothing: the test of it is subsumed.
stop(s) ==
    LET k == IF s.proc # 0
             THEN [s EXCEPT !.procs[s.proc] = Kill(@)]
             ELSE s
    IN cleanup(rejectAllPending(k, "Native R session stopped"))

MissingList_StringOnly(m) ==
    IF m.tag = "str" /\ m.val[1] # "" THEN m.val ELSE <<>>

\* cover.ts:127-130: the missing list of an init-error payload.
MissingList(m) ==
    IF m.tag = "arr" THEN m.val
    ELSE IF m.tag = "str" /\ m.val[1] # "" THEN m.val
    ELSE <<>>

PendingGet_Any(s, id) == s.pending

PendingGet_Oldest(s, id) ==
    {e \in s.pending : \A x \in s.pending : e[1] <= x[1]}

\* cover.ts:142: this.pending.get(id)
PendingGet(s, id) == {e \in s.pending : e[1] = id}

\* cover.ts:114-150
handleLine(s, line) ==
    IF line.wf # "json" THEN s
    ELSE IF ~s.initialized /\ line.type = "init"
    THEN IF line.status = "ok"
         THEN SettleFuture([s EXCEPT !.initialized = TRUE],
                           s.readyResolve, "resolved", <<>>, "")
         ELSE LET missingList == MissingList(line.missing)
                  msg == IF Len(missingList) > 0 THEN ""
                         ELSE "Native R initialization failed"
              IN stop(SettleFuture(s, s.readyReject, "rejected", missingList, msg))
    ELSE IF ~s.initialized THEN s
    ELSE IF line.id = 0 THEN s
    ELSE IF PendingGet(s, line.id) = {} THEN s
    ELSE LET e == CHOOSE x \in PendingGet(s, line.id) : TRUE
             d == [s EXCEPT !.pending = @ \ {e}]
         IN IF line.status = "ok"
            THEN SettleRequest(d, e[2], "resolved", "")
            ELSE SettleRequest(d, e[2], "rejected", "Native R error")

\* The lines written to the subprocess's stdin: the bootstrap statement
\* (cover.ts:110) and the wrapped expressions (cover.ts:160, 177), which
\* carry their correlation id.
BootItem == 0
EvalItem(id) == id

\* A slot is free once its subprocess is gone and its init timer is off.
FreeSlots(s) ==
    {p \in Slots : s.procs[p] = "gone" /\ s.futures[p].timer = "off"}

Min(S) == CHOOSE x \in S : \A y \in S : x <= y

\* cover.ts:62-111: the body of start() after the early return.
spawnWorker(s, spawnOk) ==
    LET p == Min(FreeSlots(s))
    IN [s EXCEPT
           !.nextId = 1,
           !.pending = {},
           !.proc = p,
           !.reader = p,
           !.procs[p] = IF spawnOk THEN "running" ELSE "failed",
           !.futures[p] = [state |-> "pending", timer |-> "armed"],
           !.readyPromise = p,
           !.readyResolve = p,
           !.readyReject = p,
           !.stdin = <<BootItem>>,
           !.requests = <<>>]

AlreadyStarted_OnlyReady(s) == s.readyPromise # 0 /\ s.initialized

\* cover.ts:61
AlreadyStarted(s) == s.readyPromise # 0

\* cover.ts:60-112
start(s, spawnOk) ==
    IF AlreadyStarted(s) THEN s ELSE spawnWorker(s, spawnOk)

NotInitialized_NoProc(s) == s.proc = 0

\* cover.ts:154, 171
NotInitialized(s) == s.proc = 0 \/ ~s.initialized

AllocId_Reuse(s) == s

\* cover.ts:157, 174: const id = this.nextId++
AllocId(s) == [s EXCEPT !.nextId = @ + 1]

\* cover.ts:153-184: evalRVoid and evalRString differ only in what the
\* resolved value is, which the model leaves out. `ok` is what stdin.write()
\* returns: false means the pipe's buffer is over its high-water mark; the
\* line is queued all the same.
evalR(s, ok) ==
    IF NotInitialized(s)
    THEN [s EXCEPT !.emitted = @ \cup
            {Settlement("eval", 0, "rejected", <<>>, "Native R session is not initialized")}]
    ELSE LET id == s.nextId
             r == Len(s.requests) + 1
             reg == [AllocId(s) EXCEPT
                       !.requests = Append(@, [id |-> id, state |-> "pending"]),
                       !.pending = {e \in @ : e[1] # id} \cup {<<id, r>>},
                       !.stdin = Append(@, EvalItem(id))]
         IN IF ok THEN reg
            ELSE SettleRequest([reg EXCEPT !.pending = {e \in @ : e[1] # id}],
                               r, "rejected", "Failed to send expression to native R")

\* cover.ts:80-87
onExit(s) ==
    LET a == IF ~s.initialized /\ s.readyReject # 0
             THEN SettleFuture(s, s.readyReject, "rejected", <<>>,
                               "Native R exited before initialization")
             ELSE s
    IN cleanup(rejectAllPending(a, "Native R session terminated"))

\* cover.ts:88-94
onError(s) ==
    LET a == IF ~s.initialized /\ s.readyReject # 0
             THEN SettleFuture(s, s.readyReject, "rejected", <<>>, "spawn error")
             ELSE s
    IN cleanup(rejectAllPending(a, "spawn error"))

\* cover.ts:100-106
initTimeout(s) ==
    IF ~s.initialized /\ s.readyReject # 0
    THEN stop(SettleFuture(s, s.readyReject, "rejected", <<>>,
                           "Native R did not initialize in time"))
    ELSE s

\* cover.ts:74-79: proc.stderr.on('data', ...) appends to a buffer local to
\* start() that nothing reads, and logs.
onStderr(s) == s

\* rl.on('line', ...) (cover.ts:73) for each of `lines` in turn; the reader
\* delivers nothing once cleanup() has closed it.
RECURSIVE handleLines(_, _)
handleLines(s, lines) ==
    IF lines = <<>> \/ s.reader = 0 THEN s
    ELSE handleLines(handleLine(s, Head(lines)), Tail(lines))

\* ------------------------------------------------------------- actions
\* The lines an R process may print besides the ones modelled by Bootstrap
\* and Wrapped: output of the evaluated expressions themselves.
OtherLines ==
    {Line("empty", "none", "none", 0, NoMissing),
     Line("text", "none", "none", 0, NoMissing),
     Line("json", "none", "ok", 0, NoMissing),
     InitOkLine,
     InitErrorLine(NoMissing),
     InitErrorLine(MissingStr("DDIwR")),
     InitErrorLine(MissingArr(<<"jsonlite", "DDIwR">>))}
    \cup {ResponseLine(i, st) : i \in 1..MaxReqs, st \in {"ok", "error"}}

PackageSets == SUBSET {packages[i] : i \in DOMAIN packages}

\* Whether the spawn succeeds matters only to a start() that spawns.
Start ==
    \E spawnOk \in IF AlreadyStarted(W) THEN {TRUE} ELSE BOOLEAN :
        /\ readyPromise # 0 \/ FreeSlots(W) # {}
        /\ LET s == start(W, spawnOk)
           IN Commit(s, Op("start", s.readyPromise))

EvalRVoid ==
    \E ok \in IF NotInitialized(W) THEN {TRUE} ELSE BOOLEAN :
        /\ nextId <= MaxReqs
        /\ Commit(evalR(W, ok), Op("evalRVoid", nextId))

EvalRString ==
    \E ok \in IF NotInitialized(W) THEN {TRUE} ELSE BOOLEAN :
        /\ nextId <= MaxReqs
        /\ Commit(evalR(W, ok), Op("evalRString", nextId))

Stop == Commit(stop(W), Op("stop", proc))

\* The R process behind the open reader evaluates the next line of its stdin
\* and the worker reads what it printed. (A process nobody reads any more is
\* seen only through its exit.) The bootstrap meets an R that lacks the
\* packages in `missingPkgs`, and R halts when it raises an error; a wrapped
\* expression fails in R or does not (`fails`).
CanEvaluate(s) ==
    /\ s.reader # 0
    /\ s.procs[s.reader] = "running"
    /\ s.stdin # <<>>

engineStep(s, missingPkgs, fails) ==
    LET item == Head(s.stdin)
        run == IF item = BootItem THEN Bootstrap(missingPkgs)
               ELSE [out |-> Wrapped(item, fails), halts |-> FALSE]
        a == [s EXCEPT !.stdin = Tail(@),
                       !.procs[s.reader] = IF run.halts THEN "exiting" ELSE @]
    IN handleLines(a, run.out)

EngineStep ==
    /\ CanEvaluate(W)
    /\ \/ /\ Head(stdin) = BootItem
          /\ \E missingPkgs \in PackageSets :
                Commit(engineStep(W, missingPkgs, FALSE), Op("engine", BootItem))
       \/ /\ Head(stdin) # BootItem
          /\ \E fails \in BOOLEAN :
                Commit(engineStep(W, {}, fails),
                       [Op("engine", Head(stdin)) EXCEPT !.fails = fails])

\* The lines the reader delivers in state s. handleLine tells apart, while
\* the worker is not initialized, an init line that reports success and one
\* that reports failure, and afterwards a response to each pending request;
\* every other line leaves what a line that is no JSON leaves, which stands
\* for all of them here (OtherLines is the whole set).
PrintedLines(s) ==
    {Line("text", "none", "none", 0, NoMissing)}
    \cup (IF s.initialized
          THEN {ResponseLine(e[1], st) : e \in s.pending, st \in {"ok", "error"}}
          ELSE {InitOkLine, InitErrorLine(MissingStr("DDIwR"))})

\* rl.on('line', ...) for a line the evaluated code printed itself.
OtherLine ==
    \E line \in PrintedLines(W) :
        /\ reader # 0
        /\ procs[reader] = "running"
        /\ Commit(handleLine(W, line), Op("line", 0))

\* The R process writes to its error stream.
StderrData ==
    /\ \E p \in Slots : procs[p] = "running"
    /\ Commit(onStderr(W), Op("stderr", 0))

\* The R process dies on its own (a crash, q(), an external kill).
ProcCrash ==
    \E p \in Slots :
        /\ procs[p] = "running"
        /\ Commit([W EXCEPT !.procs[p] = "exiting"], Op("crash", p))

\* proc.on('exit', ...) of process p (cover.ts:80): the handler stays attached
\* to the process it was registered on and works on the object's current fields.
ProcExit ==
    \E p \in Slots :
        /\ procs[p] = "exiting"
        /\ Commit(onExit([W EXCEPT !.procs[p] = "gone"]), Op("exit", p))

\* proc.on('error', ...) of process p (cover.ts:88): the spawn failed. Node
\* may or may not emit 'exit' after 'error'.
ProcError ==
    \E p \in Slots, alsoExit \in BOOLEAN :
        /\ procs[p] = "failed"
        /\ Commit(onError([W EXCEPT !.procs[p] = IF alsoExit THEN "exiting" ELSE "gone"]),
                  Op("error", p))

\* The setTimeout callback of the start() that made future f (cover.ts:100).
TimerFire ==
    \E f \in Slots :
        /\ futures[f].timer = "armed"
        /\ Commit(initTimeout([W EXCEPT !.futures[f].timer = "off"]),
                  Op("timeout", f))

InitWorker ==
    /\ proc = 0
    /\ reader = 0
    /\ pending = {}
    /\ nextId = 1
    /\ readyPromise = 0
    /\ readyResolve = 0
    /\ readyReject = 0
    /\ initialized = FALSE
    /\ procs = [p \in Slots |-> "gone"]
    /\ futures = [p \in Slots |-> [state |-> "none", timer |-> "off"]]
    /\ stdin = <<>>
    /\ requests = <<>>
    /\ emitted = {}
    /\ lastOp = Op("new", 0)

\* The worker supervisor.
Next ==
    \/ Start
    \/ EvalRVoid
    \/ EvalRString
    \/ Stop
    \/ EngineStep
    \/ OtherLine
    \/ StderrData
    \/ ProcCrash
    \/ ProcExit
    \/ ProcError
    \/ TimerFire

\* ------------------------------------------------------------- normalizer
\* A name is a sequence of characters; a word of letters counts as one.
Digits == {"0", "1", "2", "3", "4", "5", "6", "7", "8", "9"}
AttributesKey == <<".", "attributes">>
ExtraKey == <<".", "extra">>
ValueKey == <<"value">>

\* An R value: NULL, an atomic value, or a list of named entries. `ra` is
\* the R attribute the value carries besides names and class ("": none).
Null == [t |-> "null", v |-> "", e |-> <<>>, ra |-> ""]
Atom(v) == [t |-> "atom", v |-> v, e |-> <<>>, ra |-> ""]
List(e) == [t |-> "list", v |-> "", e |-> e, ra |-> ""]
Entry(k, x) == [k |-> k, x |-> x]
WithAttribute(x, a) == [x EXCEPT !.ra = a]
is_list(x) == x.t = "list"
names(x) == [i \in DOMAIN x.e |-> x.e[i].k]

\* x$key: the first entry of that name, NULL when there is none.
Dollar(x, key) ==
    IF \E i \in DOMAIN x.e : x.e[i].k = key
    THEN x.e[CHOOSE i \in DOMAIN x.e :
                /\ x.e[i].k = key
                /\ \A j \in DOMAIN x.e : x.e[j].k = key => i <= j].x
    ELSE Null

\* x$key <- NULL: the list without the first entry of that name.
DollarNull(x, key) ==
    IF \E i \in DOMAIN x.e : x.e[i].k = key
    THEN LET i == CHOOSE i \in DOMAIN x.e :
                    /\ x.e[i].k = key
                    /\ \A j \in DOMAIN x.e : x.e[j].k = key => i <= j
         IN List(SubSeq(x.e, 1, i - 1) \o SubSeq(x.e, i + 1, Len(x.e)))
    ELSE x

\* utils.R:87: sub("\\.\\d+$", "", k, perl = TRUE), the regular expression
\* \.\d+$ : a dot followed by digits up to the end is cut off.
StripSuffix(k) ==
    IF \E i \in DOMAIN k :
          /\ k[i] = "."
          /\ i < Len(k)
          /\ \A j \in (i + 1)..Len(k) : k[j] \in Digits
    THEN LET i == CHOOSE i \in DOMAIN k :
                    /\ k[i] = "."
                    /\ i < Len(k)
                    /\ \A j \in (i + 1)..Len(k) : k[j] \in Digits
         IN SubSeq(k, 1, i - 1)
    ELSE k

\* utils.R:89: the group the R literal "(\\\\.\\\\d+)?$" denotes. The
\* literal is the text (\\.\\d+)?$ , which as a regular expression reads: a
\* backslash, any character, a backslash, one or more letters d.
GroupMatches(tail) ==
    /\ Len(tail) >= 4
    /\ tail[1] = "\\"
    /\ tail[3] = "\\"
    /\ \A i \in 4..Len(tail) : tail[i] = "d"

\* utils.R:82, 89-90: grepl(paste0("^", esc(base), "(\\\\.\\\\d+)?$"), key).
\* esc() puts a backslash before every metacharacter of base, so that part
\* matches base literally.
KeyMatches(base, key) ==
    /\ Len(key) >= Len(base)
    /\ SubSeq(key, 1, Len(base)) = base
    /\ \/ Len(key) = Len(base)
       \/ GroupMatches(SubSeq(key, Len(base) + 1, Len(key)))

\* A node under construction: list(name = name) (utils.R:51, 106).
NewNode(name) ==
    [name |-> name, attributes |-> Null, value |-> Null,
     hasChildren |-> FALSE, children |-> <<>>]

\* node$member <- v leaves the node without the member when v is NULL.
SetChildren(n, ch) == [n EXCEPT !.hasChildren = TRUE, !.children = ch]

\* utils.R:40-49: what normalize_element takes off a list.
Attrs(x) == IF is_list(x) THEN Dollar(x, AttributesKey) ELSE Null

DropMeta(x) ==
    IF is_list(x)
    THEN LET y == IF Dollar(x, AttributesKey) # Null
                  THEN DollarNull(x, AttributesKey) ELSE x
         IN IF Dollar(y, ExtraKey) # Null THEN DollarNull(y, ExtraKey) ELSE y
    ELSE x

\* utils.R:56-58
IsLeaf(x) ==
    /\ \A i \in DOMAIN x.e : x.e[i].k = ValueKey
    /\ \E i \in DOMAIN x.e : x.e[i].k = ValueKey

\* which(): the positions in ascending order.
RECURSIVE Ascending(_)
Ascending(S) ==
    IF S = {} THEN <<>> ELSE <<Min(S)>> \o Ascending(S \ {Min(S)})

RECURSIVE normalize_element(_, _)
RECURSIVE normalize_children(_)
RECURSIVE ChildrenLoop(_, _, _, _, _)

normalize_element_NoReturn(name, x) ==
    LET n == [NewNode(name) EXCEPT !.attributes = Attrs(x)]
        y == DropMeta(x)
    IN IF is_list(y)
       THEN SetChildren(IF IsLeaf(y) THEN [n EXCEPT !.value = Dollar(y, ValueKey)] ELSE n,
                        normalize_children(y))
       ELSE [n EXCEPT !.value = y]

\* utils.R:37-71
normalize_element(name, x) ==
    LET n == [NewNode(name) EXCEPT !.attributes = Attrs(x)]
        y == DropMeta(x)
    IN IF is_list(y)
       THEN IF IsLeaf(y)
            THEN [n EXCEPT !.value = Dollar(y, ValueKey)]
            ELSE SetChildren(n, normalize_children(y))
       ELSE [n EXCEPT !.value = y]

\* utils.R:77
MetaKeys == {AttributesKey, ExtraKey}

\* utils.R:84-97: the loop from key i on. `keys` are the names without the
\* meta keys, `used` the positions marked, `acc` the output so far. The
\* positions found in `keys` index the list x itself (x[[j]]).
ChildrenLoop(x, keys, i, used, acc) ==
    IF i > Len(keys) THEN acc
    ELSE IF i \in used THEN ChildrenLoop(x, keys, i + 1, used, acc)
    ELSE LET base == StripSuffix(keys[i])
             idx == {j \in DOMAIN keys : KeyMatches(base, keys[j])}
             sorted == Ascending(idx)
             made == [n \in DOMAIN sorted |-> normalize_element(base, x.e[sorted[n]].x)]
         IN ChildrenLoop(x, keys, i + 1, used \cup idx, acc \o made)

\* utils.R:73-99
normalize_children(x) ==
    IF ~is_list(x) THEN <<>>
    ELSE ChildrenLoop(x, SelectSeq(names(x), LAMBDA k : k \notin MetaKeys), 1, {}, <<>>)

\* attributes(x) without "names" and "class" (utils.R:3-7): NULL or a list.
attributes(x) ==
    IF x.ra = "" THEN Null ELSE List(<<Entry(<<x.ra>>, Atom("v1"))>>)

\* x$key <- v for a v that is not NULL: the first entry of that name is
\* replaced, or an entry is appended.
DollarSet(x, key, v) ==
    IF \E i \in DOMAIN x.e : x.e[i].k = key
    THEN LET i == CHOOSE i \in DOMAIN x.e :
                    /\ x.e[i].k = key
                    /\ \A j \in DOMAIN x.e : x.e[j].k = key => i <= j
         IN [x EXCEPT !.e[i].x = v]
    ELSE [x EXCEPT !.e = Append(@, Entry(key, v))]

\* utils.R:1-26. lapply() keeps the names of a list and none of its other
\* attributes. (Every entry of a list of the model has a name.)
RECURSIVE keep_attributes(_)
keep_attributes(x) ==
    LET attrs == attributes(x)
    IN IF is_list(x)
       THEN LET kept == List([i \in DOMAIN x.e |->
                                 Entry(x.e[i].k, keep_attributes(x.e[i].x))])
                y == IF attrs # Null THEN DollarSet(kept, AttributesKey, attrs) ELSE kept
            IN IF Len(y.e) = 0 THEN List(<<Entry(AttributesKey, attrs)>>) ELSE y
       ELSE IF attrs # Null
            THEN List(<<Entry(ValueKey, x), Entry(AttributesKey, attrs)>>)
            ELSE x

CodeBook == <<"codeBook">>

\* utils.R:101-110
normalize_codebook(cb0) ==
    LET cb == keep_attributes(cb0)
        attrs == Attrs(cb)
        rest == IF attrs # Null THEN DollarNull(cb, AttributesKey) ELSE cb
    IN SetChildren([NewNode(CodeBook) EXCEPT !.attributes = attrs],
                   normalize_children(rest))

\* The raw lists the normalizer is run on: up to MaxKeys entries with
\* distinct names, in any order. The names x, x.1, x.2 are those of a
\* repeated element; y is an element of its own, whose content may be a
\* list that repeats a name with or without suffixes.
X == <<"x">>
X1 == <<"x", ".", "1">>
X2 == <<"x", ".", "2">>
Y == <<"y">>
DataKeys == {X, X1, X2, Y, ValueKey}

AttributeList == List(<<Entry(<<"id">>, Atom("v1"))>>)

PlainValues == {Atom("a"), List(<<Entry(ValueKey, Atom("b"))>>)}

RichValues ==
    PlainValues
    \cup {WithAttribute(Atom("c"), "id"),
          List(<<Entry(X, Atom("a")), Entry(X1, Atom("b"))>>),
          List(<<Entry(X, Atom("a")), Entry(X, Atom("b"))>>),
          List(<<Entry(AttributesKey, AttributeList), Entry(ValueKey, Atom("c"))>>)}

Entries ==
    {Entry(k, v) : k \in DataKeys \ {Y}, v \in PlainValues}
    \cup {Entry(Y, v) : v \in RichValues}
    \cup {Entry(AttributesKey, AttributeList), Entry(ExtraKey, Atom("e"))}

DistinctNames(s) == \A i, j \in DOMAIN s : s[i].k = s[j].k => i = j

IsRawInput(x) ==
    \E n \in 0..MaxKeys :
        \E s \in [1..n -> Entries] :
            /\ DistinctNames(s)
            /\ x = List(s)

\* The name of the element the raw list is the content of.
Container == <<"var">>

NoNode == NewNode(<<>>)

NormalizeElement ==
    /\ normOp = "none"
    /\ normOp' = "element"
    /\ node' = normalize_element(Container, raw)
    /\ out' = <<>>
    /\ UNCHANGED <<raw, wvars, cvars, ovars, evars>>

NormalizeChildren ==
    /\ normOp = "none"
    /\ normOp' = "children"
    /\ out' = normalize_children(raw)
    /\ node' = NoNode
    /\ UNCHANGED <<raw, wvars, cvars, ovars, evars>>

\* The codebook object may carry R attributes of its own.
NormalizeCodebook ==
    \E a \in {"", "id"} :
        /\ normOp = "none"
        /\ normOp' = "codebook"
        /\ raw' = WithAttribute(raw, a)
        /\ node' = normalize_codebook(raw')
        /\ out' = <<>>
        /\ UNCHANGED <<wvars, cvars, ovars, evars>>

NoRun ==
    /\ normOp = "none"
    /\ node = NoNode
    /\ out = <<>>

InitNormalizer ==
    /\ IsRawInput(raw)
    /\ NoRun

\* The normalizer.
NextNormalizer ==
    \/ NormalizeElement
    \/ NormalizeChildren
    \/ NormalizeCodebook

\* ------------------------------------------------------------- orchestrator
Startup == 0
Loads == 1..MaxLoads

\* An operation: where it stands ("idle", "native": awaiting the native
\* script; "webrInit": awaiting run `awaits` of initWebR; "webrLoad":
\* awaiting loadCodebookViaWebR; "done"), whether its native run failed, and
\* for a finished one the engine whose outcome its caller got ("native",
\* "webr", "cache", "none") and that outcome ("ok", "error", "unsupported").
IdleOp ==
    [pc |-> "idle", nativeFailed |-> FALSE, awaits |-> 0,
     by |-> "none", outcome |-> "none"]

Finish(op, by, outcome) ==
    [op EXCEPT !.pc = "done", !.awaits = 0, !.by = by, !.outcome = outcome]

O == [settings |-> settings, nativeRscriptPath |-> nativeRscriptPath,
      booting |-> booting, webRInitPromise |-> webRInitPromise,
      webRInitialized |-> webRInitialized, runs |-> runs, ops |-> ops,
      started |-> started, discovered |-> discovered, spawned |-> spawned, chosen |-> chosen]

CommitO(s) ==
    /\ settings' = s.settings
    /\ nativeRscriptPath' = s.nativeRscriptPath
    /\ booting' = s.booting
    /\ webRInitPromise' = s.webRInitPromise
    /\ webRInitialized' = s.webRInitialized
    /\ runs' = s.runs
    /\ ops' = s.ops
    /\ started' = s.started
    /\ discovered' = s.discovered
    /\ spawned' = s.spawned
    /\ chosen' = s.chosen
    /\ UNCHANGED <<wvars, cvars, nvars, evars>>

\* main.ts:420-426
getBackendMode(s) == IF s.settings = "webr" THEN "webr" ELSE "native"

\* main.ts:428-432: settings.set may throw, which is ignored.
setBackendMode(s, mode, setOk) ==
    IF setOk THEN [s EXCEPT !.settings = mode] ELSE s

\* main.ts:702-709
finalizeBoot(s) == [s EXCEPT !.booting = FALSE]

NeedsRun_Always(s) == TRUE

\* main.ts:713
NeedsRun(s) == s.webRInitPromise = 0

\* main.ts:711-723 up to its return: the state it leaves and the run whose
\* outcome the caller awaits (0: none, it returned at line 712).
ensureWebRInitialized(s) ==
    IF s.webRInitialized THEN [s |-> s, awaits |-> 0]
    ELSE IF NeedsRun(s)
    THEN LET r == Len(s.runs) + 1
         IN [s |-> [s EXCEPT !.runs = Append(@, "pending"), !.webRInitPromise = r],
             awaits |-> r]
    ELSE [s |-> s, awaits |-> s.webRInitPromise]

\* The model follows at most MaxInits runs of initWebR.
CanEnsure(s) ==
    s.webRInitialized \/ ~NeedsRun(s) \/ Len(s.runs) < MaxInits

\* Operation o goes to the embedded engine: main.ts:570-572, 578-580 for a
\* load, main.ts:751 for the startup, whose work initWebR itself does.
toWebR(s, o) ==
    LET e == ensureWebRInitialized(s)
    IN IF e.awaits # 0
       THEN [e.s EXCEPT !.ops[o].pc = "webrInit", !.ops[o].awaits = e.awaits]
       ELSE IF o = Startup
       THEN [e.s EXCEPT !.ops[o] = Finish(@, "webr", "ok")]
       ELSE [e.s EXCEPT !.ops[o].pc = "webrLoad"]

\* main.ts:476-483: runNativeRScript up to the spawn.
runNativeRScript(s, o) ==
    IF ~s.nativeRscriptPath
    THEN [s EXCEPT !.ops[o].nativeFailed = TRUE]
    ELSE [s EXCEPT !.ops[o].pc = "native", !.spawned = TRUE]

fallback_SetsMode(s, o) ==
    [s EXCEPT !.nativeRscriptPath = FALSE, !.ops[o].nativeFailed = TRUE,
              !.settings = "webr"]

\* main.ts:567-569, 740-743: the catch of a failed native run.
fallback(s, o) ==
    [s EXCEPT !.nativeRscriptPath = FALSE, !.ops[o].nativeFailed = TRUE]

useNative_ModeOnly(s) == getBackendMode(s) = "native"

\* main.ts:561, 728
useNative(s) == getBackendMode(s) = "native" /\ s.nativeRscriptPath

\* main.ts:725-752 up to its first await. `hit`: getOrBuildDDITree finds the
\* catalog in the cache and the build function is not called.
initializeRBackend(s, hit) ==
    IF useNative(s)
    THEN IF hit
         THEN finalizeBoot([s EXCEPT !.ops[Startup] = Finish(@, "cache", "ok")])
         ELSE LET n == runNativeRScript(s, Startup)
              IN IF n.ops[Startup].pc = "native" THEN n
                 ELSE toWebR(fallback(n, Startup), Startup)
    ELSE toWebR(s, Startup)

\* main.ts:1003-1046: app.whenReady(). `path`: findNativeRscript found one.
whenReady(s, path, hit, setOk) ==
    LET a == [s EXCEPT !.started = TRUE, !.nativeRscriptPath = path,
                       !.discovered = path]
        b == initializeRBackend(a, hit)
    IN IF b.settings \notin {"native", "webr"}
       THEN setBackendMode(b, "native", setOk)
       ELSE b

\* main.ts:544-581 up to its first await.
loadCodebookFile(s, l, supported) ==
    IF ~supported THEN [s EXCEPT !.ops[l] = Finish(@, "none", "unsupported")]
    ELSE IF useNative(s)
    THEN LET n == runNativeRScript(s, l)
         IN IF n.ops[l].pc = "native" THEN n
            ELSE toWebR(fallback(n, l), l)
    ELSE toWebR(s, l)

nativeSettles_ReportsFailure(s, o, ok) ==
    IF ok
    THEN IF o = Startup
         THEN finalizeBoot([s EXCEPT !.ops[o] = Finish(@, "native", "ok")])
         ELSE [s EXCEPT !.ops[o] = Finish(@, "native", "ok")]
    ELSE [fallback(s, o) EXCEPT !.ops[o] = Finish(@, "native", "error")]

\* The native script of operation o ends (main.ts:489-503, 510, 732).
nativeSettles(s, o, ok) ==
    IF ok
    THEN IF o = Startup
         THEN finalizeBoot([s EXCEPT !.ops[o] = Finish(@, "native", "ok")])
         ELSE [s EXCEPT !.ops[o] = Finish(@, "native", "ok")]
    ELSE toWebR(fallback(s, o), o)

\* Run r of initWebR ends (main.ts:624-691) and the handlers that
\* ensureWebRInitialized attached run (main.ts:715-720), then the operations
\* that await it go on. A run that succeeds has built the catalog on the
\* embedded engine, or tried to, and has called finalizeBoot.
Resume(s, o, ok) ==
    IF ~ok THEN [s EXCEPT !.ops[o] = Finish(@, "webr", "error")]
    ELSE IF o = Startup THEN [s EXCEPT !.ops[o] = Finish(@, "webr", "ok")]
    ELSE [s EXCEPT !.ops[o].pc = "webrLoad", !.ops[o].awaits = 0]

RECURSIVE ResumeAll(_, _, _)
ResumeAll(s, waiting, ok) ==
    IF waiting = {} THEN s
    ELSE LET o == Min(waiting)
         IN ResumeAll(Resume(s, o, ok), waiting \ {o}, ok)

initWebRSettles(s, r, ok) ==
    LET a == IF ok
             THEN finalizeBoot([s EXCEPT !.runs[r] = "resolved", !.webRInitialized = TRUE])
             ELSE [s EXCEPT !.runs[r] = "rejected", !.webRInitPromise = 0]
        waiting == {o \in DOMAIN s.ops : s.ops[o].pc = "webrInit" /\ s.ops[o].awaits = r}
    IN ResumeAll(a, waiting, ok)

\* main.ts:572, 580-582: loadCodebookViaWebR of load l ends.
webRLoadSettles(s, l, ok) ==
    [s EXCEPT !.ops[l] = Finish(@, "webr", IF ok THEN "ok" ELSE "error")]

\* main.ts:961-965: the user picks a backend in the settings menu.
setBackend(s, mode, setOk) ==
    [setBackendMode(s, mode, setOk) EXCEPT !.chosen = IF setOk THEN mode ELSE @]

Modes == {"native", "webr"}

WhenReady ==
    \E path \in BOOLEAN, hit \in BOOLEAN, setOk \in BOOLEAN :
        /\ ~started
        /\ CommitO(whenReady(O, path, hit, setOk))

LoadCodebookFile ==
    \E l \in Loads, supported \in BOOLEAN :
        /\ started
        /\ ops[l].pc = "idle"
        /\ \A k \in Loads : k < l => ops[k].pc # "idle"
        /\ CanEnsure(O)
        /\ CommitO(loadCodebookFile(O, l, supported))

NativeSettles ==
    \E o \in DOMAIN ops, ok \in BOOLEAN :
        /\ ops[o].pc = "native"
        /\ ok \/ CanEnsure(O)
        /\ CommitO(nativeSettles(O, o, ok))

InitWebRSettles ==
    \E r \in DOMAIN runs, ok \in BOOLEAN :
        /\ runs[r] = "pending"
        /\ CommitO(initWebRSettles(O, r, ok))

WebRLoadSettles ==
    \E l \in Loads, ok \in BOOLEAN :
        /\ ops[l].pc = "webrLoad"
        /\ CommitO(webRLoadSettles(O, l, ok))

\* The settings menu is enabled once booting is over (main.ts:975).
SetBackend ==
    \E mode \in Modes, setOk \in BOOLEAN :
        /\ started
        /\ ~booting
        /\ CommitO(setBackend(O, mode, setOk))

InitOrchestrator ==
    /\ settings = "unset"
    /\ nativeRscriptPath = FALSE
    /\ booting = TRUE
    /\ webRInitPromise = 0
    /\ webRInitialized = FALSE
    /\ runs = <<>>
    /\ ops = [o \in {Startup} \cup Loads |-> IdleOp]
    /\ started = FALSE
    /\ discovered = FALSE
    /\ spawned = FALSE
    /\ chosen = "native"

\* The stored preference the application is launched with.
LaunchOrchestrator ==
    \E stored \in {"unset", "native", "webr"} :
        /\ settings = stored
        /\ chosen = IF stored = "webr" THEN "webr" ELSE "native"
        /\ nativeRscriptPath = FALSE
        /\ booting = TRUE
        /\ webRInitPromise = 0
        /\ webRInitialized = FALSE
        /\ runs = <<>>
        /\ ops = [o \in {Startup} \cup Loads |-> IdleOp]
        /\ started = FALSE
        /\ discovered = FALSE
        /\ spawned = FALSE

\* The orchestrator.
NextOrchestrator ==
    \/ WhenReady
    \/ LoadCodebookFile
    \/ NativeSettles
    \/ InitWebRSettles
    \/ WebRLoadSettles
    \/ SetBackend

\* ------------------------------------------------------------- embedded engine
\* Files of the host: a directory and a base name. Two of them share the
\* directory, two the base name.
File(dir, base) == [dir |-> dir, base |-> base]
NoFile == File("", "")
HostFiles == {File("a", "x"), File("a", "y"), File("b", "x")}
Dirs == {f.dir : f \in HostFiles}

\* jsonlite::toJSON(normalize_codebook(cb)) for the codebook read from file f,
\* parsed (main.ts:471-473): a tree is told by the file it was read from.
TreeOf(f) == [name |-> "codeBook", from |-> f]
NoTree == TreeOf(NoFile)

\* A call of loadCodebookViaWebR: "idle", "waiting" for the answer to the
\* request `at`, "returned" `ret`, or "rejected".
IdleLoad == [pc |-> "idle", file |-> NoFile, at |-> "none", ret |-> NoTree]

E == [hostfile |-> hostfile, codeBook |-> codeBook, viaWebR |-> viaWebR,
      channel |-> channel]

CommitE(s) ==
    /\ hostfile' = s.hostfile
    /\ codeBook' = s.codeBook
    /\ viaWebR' = s.viaWebR
    /\ channel' = s.channel
    /\ UNCHANGED <<wvars, cvars, nvars, ovars>>

\* Load l sends request req to the engine and awaits the answer.
Request(s, l, req) ==
    [s EXCEPT !.channel = Append(@, [load |-> l, req |-> req]),
              !.viaWebR[l].pc = "waiting",
              !.viaWebR[l].at = req]

Throws(s, l) == [s EXCEPT !.viaWebR[l].pc = "rejected"]

\* main.ts:461-466 up to the first await, in mount() (main.ts:599).
loadCodebookViaWebR(s, l, file) ==
    Request([s EXCEPT !.viaWebR[l].file = file], l, "unmount")

\* main.ts:596-622: mount({what: dir, where: '/hostfile'}) from the answer to
\* request req on. FS.unmount throws unless something is mounted on the path,
\* FS.mkdir throws when the path exists, FS.mount needs a directory that is
\* not a mount point.
mount(s, l, req) ==
    IF req = "unmount"
    THEN IF s.hostfile \in Dirs
         THEN Request([s EXCEPT !.hostfile = "empty"], l, "mount")
         ELSE Request(s, l, "mkdir")
    ELSE IF req = "mkdir"
    THEN IF s.hostfile = "absent"
         THEN Request([s EXCEPT !.hostfile = "empty"], l, "mount")
         ELSE Throws(s, l)
    ELSE IF s.hostfile = "empty"
         THEN Request([s EXCEPT !.hostfile = s.viaWebR[l].file.dir], l, "assign")
         ELSE Throws(s, l)

\* main.ts:468-469: codeBook <- getCodebook("/hostfile/<base>") in R's global
\* environment; getCodebook fails on a path that does not exist.
assignCodeBook(s, l) ==
    LET rPath == File(s.hostfile, s.viaWebR[l].file.base)
    IN IF rPath \in HostFiles
       THEN Request([s EXCEPT !.codeBook = rPath], l, "read")
       ELSE Throws(s, l)

\* main.ts:471-473: the read-back of the global codeBook.
readBack(s, l) ==
    IF s.codeBook = NoFile THEN Throws(s, l)
    ELSE [s EXCEPT !.viaWebR[l].pc = "returned", !.viaWebR[l].ret = TreeOf(s.codeBook)]

\* The engine serves the oldest request and the load that awaits it goes on
\* to its next await.
serve(s) ==
    LET m == Head(s.channel)
        t == [s EXCEPT !.channel = Tail(@)]
    IN IF m.req \in {"unmount", "mkdir", "mount"} THEN mount(t, m.load, m.req)
       ELSE IF m.req = "assign" THEN assignCodeBook(t, m.load)
       ELSE readBack(t, m.load)

\* loadCodebookFile calls loadCodebookViaWebR (main.ts:572, 580) for each
\* 'loadFile' message (main.ts:818-828) and each dropped file (857-862);
\* neither waits for the load before.
LoadCodebookViaWebR ==
    \E l \in Loads, file \in HostFiles :
        /\ viaWebR[l].pc = "idle"
        /\ \A k \in Loads : k < l => viaWebR[k].pc # "idle"
        /\ CommitE(loadCodebookViaWebR(E, l, file))

EngineServes ==
    /\ channel # <<>>
    /\ CommitE(serve(E))

\* The engine as a load may find it: as initWebR left it (main.ts:624-691),
\* with no /hostfile, or as an earlier load of `prev` left it.
LaunchEngine ==
    \E prev \in {NoFile} \cup HostFiles :
        /\ hostfile = IF prev = NoFile THEN "absent" ELSE prev.dir
        /\ codeBook = prev
        /\ viaWebR = [l \in Loads |-> IdleLoad]
        /\ channel = <<>>

NextEngine ==
    \/ LoadCodebookViaWebR
    \/ EngineServes


\* ------------------------------------------------------------- DDI tree cache
\* JSON values a build may return: "null" stands for the falsy ones.
JsonValues == {"null", "t1", "t2"}
ElementValues == {"e1", "e2"}

\* JsonValue | DDIBundle | null (part_007:6-8).
NoPayload == [kind |-> "none", tree |-> "null", elements |-> "null"]
Bare(v) == [kind |-> "bare", tree |-> v, elements |-> "null"]
Bundle(tree, elements) == [kind |-> "bundle", tree |-> tree, elements |-> elements]
Payloads ==
    {Bare(v) : v \in JsonValues}
    \cup {Bundle(v, e) : v \in JsonValues, e \in ElementValues}

\* part_007:99-101
isBundle(v) == v.kind = "bundle"

\* JavaScript truthiness of what loadFromCache returns (part_007:106).
Truthy(v) == v.kind = "bundle" \/ (v.kind = "bare" /\ v.tree # "null")

\* A file: absent, holding text that does not parse, or holding the JSON
\* text of a value. JSON.stringify and JSON.parse are each other's inverse
\* on JSON values.
Absent(empty) == [st |-> "absent", v |-> empty]
Torn(empty) == [st |-> "corrupt", v |-> empty]
Stringify(v) == [st |-> "json", v |-> v]
Parses(f) == f.st = "json"

\* Bytes a read returns, or a read that throws.
Unreadable == [ok |-> FALSE, bytes |-> <<>>]
Bytes(b) == [ok |-> TRUE, bytes |-> b]

Versions == {<<1>>, <<2>>}
DataFiles == {Unreadable, Bytes(<<7>>)}
MetaFiles == {Unreadable, Bytes(<<8>>)}

\* part_007:32-48: the digest of everything hash.update() was given, in
\* order; the second update is not reached when the first read throws.
computeSignature(version, data, meta) ==
    version \o (IF data.ok THEN data.bytes \o (IF meta.ok THEN meta.bytes ELSE <<>>)
                ELSE <<>>)

loadFromCache_AnySignature(expectedSig, F) ==
    IF ~Parses(F.meta) THEN NoPayload
    ELSE IF ~Parses(F.tree) THEN NoPayload
    ELSE IF Parses(F.elements) THEN Bundle(F.tree.v, F.elements.v)
    ELSE Bare(F.tree.v)

\* part_007:50-71
loadFromCache(expectedSig, F) ==
    IF ~Parses(F.meta) THEN NoPayload
    ELSE IF F.meta.v # expectedSig THEN NoPayload
    ELSE IF ~Parses(F.tree) THEN NoPayload
    ELSE IF Parses(F.elements) THEN Bundle(F.tree.v, F.elements.v)
    ELSE Bare(F.tree.v)

\* A writeFileSync that throws: it leaves the file as it was, or truncated.
FailedWrite(f, torn, empty) == IF torn THEN Torn(empty) ELSE f

\* The writes saveToCache makes for a payload, in order.
WriteSteps(payload) ==
    IF isBundle(payload) THEN <<"mkdir", "tree", "elements", "meta">>
    ELSE <<"mkdir", "tree", "meta">>

\* part_007:73-97. `failAt` is the step that throws ("none": no step does).
saveToCache(sig, payload, F, failAt, torn) ==
    IF failAt = "mkdir" THEN F
    ELSE IF failAt = "tree" THEN [F EXCEPT !.tree = FailedWrite(@, torn, "null")]
    ELSE LET t == [F EXCEPT !.tree = Stringify(payload.tree)]
         IN IF isBundle(payload) /\ failAt = "elements"
            THEN [t EXCEPT !.elements = FailedWrite(@, torn, "null")]
            ELSE LET e == IF isBundle(payload)
                          THEN [t EXCEPT !.elements = Stringify(payload.elements)]
                          ELSE t
                 IN IF failAt = "meta"
                    THEN [e EXCEPT !.meta = FailedWrite(@, torn, <<>>)]
                    ELSE [e EXCEPT !.meta = Stringify(sig)]

\* Whether tree.json and elements.json, where both hold JSON, come from one
\* call after saveToCache ran for `payload` and left the files F
\* (part_007:76-82): a call that writes tree.json writes elements.json too
\* only for a bundle, after the tree.
WrittenTogether(payload, failAt, before, F) ==
    \/ ~Parses(F.tree)
    \/ ~Parses(F.elements)
    \/ IF failAt \in {"mkdir", "tree"} THEN before
       ELSE isBundle(payload) /\ failAt # "elements"

SaveOutcome_Propagates(sig, payload, F, failAt, torn) ==
    [files |-> saveToCache(sig, payload, F, failAt, torn), threw |-> failAt # "none"]

\* part_007:74, 94-96: saveToCache runs in a try whose catch is empty, so the
\* step that throws ends the writes and nothing reaches the caller.
SaveOutcome(sig, payload, F, failAt, torn) ==
    [files |-> saveToCache(sig, payload, F, failAt, torn), threw |-> FALSE]

\* A call of getOrBuildDDITree that has returned: the signature it computed,
\* what it found (`match`: meta.json held that signature; `stale`: the cache
\* held a payload under another signature), whether it built and with what
\* result, what it returned, and whether the cache now holds the signature
\* (`kept`: it returned from the cache, or every write succeeded). `repeat`
\* says that the call returned before it computed the same signature and
\* kept it, `agrees` that the two calls returned the same payload.
NoCall ==
    [done |-> FALSE, sig |-> <<>>, match |-> FALSE, stale |-> FALSE, built |-> FALSE,
     fresh |-> NoPayload, ret |-> NoPayload, kept |-> FALSE,
     repeat |-> FALSE, agrees |-> FALSE, raised |-> "none"]

\* A call that rejected: `by` is what raised the error ("build": buildFn;
\* "save": saveToCache).
Raised(by) == [NoCall EXCEPT !.raised = by]

Returned(sig, found, built, fresh, ret, kept, before) ==
    [done |-> TRUE, sig |-> sig, match |-> found.match, stale |-> found.stale,
     built |-> built, fresh |-> fresh, ret |-> ret, kept |-> kept,
     repeat |-> before.done /\ before.kept /\ before.sig = sig,
     agrees |-> before.done /\ before.ret = ret,
     raised |-> "none"]

Idle == [pc |-> "idle", sig |-> <<>>, match |-> FALSE, stale |-> FALSE]

\* part_007:103-107: getOrBuildDDITree up to its return from the cache or
\* its await of buildFn.
GetOrBuildDDITree ==
    /\ call.pc = "idle"
    /\ LET sig == computeSignature(appVersion, pkgData, pkgMeta)
           cached == loadFromCache(sig, files)
           found == [match |-> Parses(files.meta) /\ files.meta.v = sig,
                     stale |-> /\ Parses(files.meta) /\ files.meta.v # sig
                               /\ Parses(files.tree)]
       IN IF Truthy(cached)
          THEN /\ last' = Returned(sig, found, FALSE, NoPayload, cached, TRUE, last)
               /\ UNCHANGED call
          ELSE /\ call' = [pc |-> "building", sig |-> sig, match |-> found.match,
                           stale |-> found.stale]
               /\ UNCHANGED last
    /\ UNCHANGED <<appVersion, pkgData, pkgMeta, files, sameBuild, wvars, nvars, ovars, evars>>

\* part_007:107-109: buildFn resolves with `fresh`; saveToCache; return.
BuildResolves ==
    \E fresh \in Payloads :
      \E failAt \in {"none"} \cup Range(WriteSteps(fresh)) :
        \E torn \in IF failAt \in {"none", "mkdir"} THEN {FALSE} ELSE BOOLEAN :
        /\ call.pc = "building"
        /\ LET saved == SaveOutcome(call.sig, fresh, files, failAt, torn)
           IN /\ files' = saved.files
              /\ sameBuild' = WrittenTogether(fresh, failAt, sameBuild, saved.files)
              /\ last' = IF saved.threw THEN Raised("save")
                         ELSE Returned(call.sig, call, TRUE, fresh, fresh,
                                       failAt = "none", last)
        /\ call' = Idle
        /\ UNCHANGED <<appVersion, pkgData, pkgMeta, wvars, nvars, ovars, evars>>

\* part_007:107: buildFn rejects, and so does the call; nothing is saved.
BuildRejects ==
    /\ call.pc = "building"
    /\ call' = Idle
    /\ last' = Raised("build")
    /\ UNCHANGED <<appVersion, pkgData, pkgMeta, files, sameBuild, wvars, nvars, ovars, evars>>

\* Another version of the application, or other bundled R assets, is
\* installed. No call spans an installation.
Install ==
    \E v \in Versions, d \in DataFiles, m \in MetaFiles :
        /\ call.pc = "idle"
        /\ <<v, d, m>> # <<appVersion, pkgData, pkgMeta>>
        /\ appVersion' = v
        /\ pkgData' = d
        /\ pkgMeta' = m
        /\ UNCHANGED <<files, sameBuild, call, last, wvars, nvars, ovars, evars>>

InitCache ==
    /\ appVersion = <<1>>
    /\ pkgData = Bytes(<<7>>)
    /\ pkgMeta = Bytes(<<8>>)
    /\ files = [meta |-> Absent(<<>>), tree |-> Absent("null"),
                elements |-> Absent("null")]
    /\ sameBuild = TRUE
    /\ call = Idle
    /\ last = NoCall

\* The structure cache.
NextCache ==
    \/ GetOrBuildDDITree
    \/ BuildResolves
    \/ BuildRejects
    \/ Install

vars == <<wvars, cvars, nvars, ovars, evars>>

\* Each specification runs one component; the variables of the others
\* stay at an empty value.
NoWorker ==
    /\ proc = 0 /\ reader = 0 /\ pending = {} /\ nextId = 1
    /\ readyPromise = 0 /\ readyResolve = 0 /\ readyReject = 0
    /\ initialized = FALSE
    /\ procs = <<>> /\ futures = <<>> /\ stdin = <<>> /\ requests = <<>>
    /\ emitted = {} /\ lastOp = <<>>

NoCache ==
    /\ appVersion = <<>> /\ pkgData = <<>> /\ pkgMeta = <<>> /\ files = <<>>
    /\ sameBuild = TRUE /\ call = <<>> /\ last = <<>>

NoNormalizer ==
    /\ raw = <<>> /\ normOp = "none" /\ node = <<>> /\ out = <<>>

NoOrchestrator ==
    /\ settings = "unset" /\ nativeRscriptPath = FALSE /\ booting = TRUE
    /\ webRInitPromise = 0 /\ webRInitialized = FALSE /\ runs = <<>>
    /\ ops = <<>> /\ started = FALSE /\ discovered = FALSE /\ spawned = FALSE
    /\ chosen = "native"

NoEngine ==
    /\ hostfile = "absent" /\ codeBook = <<>> /\ viaWebR = <<>> /\ channel = <<>>

Init == InitWorker /\ NoCache /\ NoNormalizer /\ NoOrchestrator /\ NoEngine

Spec == Init /\ [][Next]_vars

InitC == NoWorker /\ InitCache /\ NoNormalizer /\ NoOrchestrator /\ NoEngine

SpecCache == InitC /\ [][NextCache]_vars

InitNorm == NoWorker /\ NoCache /\ InitNormalizer /\ NoOrchestrator /\ NoEngine

SpecNorm == InitNorm /\ [][NextNormalizer]_vars

InitOrch == NoWorker /\ NoCache /\ NoNormalizer /\ LaunchOrchestrator /\ NoEngine

SpecOrch == InitOrch /\ [][NextOrchestrator]_vars

InitEng == NoWorker /\ NoCache /\ NoNormalizer /\ NoOrchestrator /\ LaunchEngine

SpecEngine == InitEng /\ [][NextEngine]_vars

\* ------------------------------------------------------------- claims

EvalOps == {"evalRVoid", "evalRString"}

\* Everything of a handler's result but the settlements it made.
Silent(s) == [s EXCEPT !.emitted = {}]

\* C1: within one subprocess instance the correlation ids given out by
\* evalRVoid and evalRString are 1, 2, 3, ... in issue order, so no id is
\* given to two requests of the instance, and the next id is one more than
\* the number of ids given.
C1_IdsInIssueOrder ==
    /\ \A r \in DOMAIN requests : requests[r].id = r
    /\ nextId = Len(requests) + 1

C1_Witness ==
    /\ lastOp.op \in EvalOps
    /\ Len(requests) >= 2
    /\ requests[Len(requests)].state = "pending"

\* C2: when the 'exit' or the 'error' handler of a subprocess runs, every
\* request in the pending table is rejected by it and the table is empty
\* afterwards.
C2_ExitRejectsAllPending ==
    /\ (\E p \in Slots : procs[p] = "exiting") =>
          LET s == onExit(W)
          IN /\ s.pending = {}
             /\ \A e \in pending :
                   /\ s.requests[e[2]].state = "rejected"
                   /\ \E x \in s.emitted :
                         x.kind = "eval" /\ x.idx = e[2] /\ x.state = "rejected"
    /\ (\E p \in Slots : procs[p] = "failed") =>
          LET s == onError(W)
          IN /\ s.pending = {}
             /\ \A e \in pending :
                   /\ s.requests[e[2]].state = "rejected"
                   /\ \E x \in s.emitted :
                         x.kind = "eval" /\ x.idx = e[2] /\ x.state = "rejected"

C2_Witness ==
    /\ lastOp.op \in {"exit", "error"}
    /\ pending = {}
    /\ Cardinality({x \in emitted : x.kind = "eval" /\ x.state = "rejected"}) >= 2

\* C3: stop() kills the subprocess of this.proc if it is running, rejects
\* every pending request with the 'session stopped' error, and leaves no
\* process, not initialized, no ready future and an empty pending table; a
\* start() after it spawns a subprocess.
C3_StopResets ==
    LET s == stop(W)
    IN /\ (proc # 0 /\ procs[proc] = "running") => s.procs[proc] = "exiting"
       /\ \A e \in pending :
             /\ Settlement("eval", e[2], "rejected", <<>>, "Native R session stopped")
                    \in s.emitted
             /\ s.requests[e[2]].state = "rejected"
       /\ s.proc = 0
       /\ ~s.initialized
       /\ s.readyPromise = 0
       /\ s.pending = {}
       /\ \A spawnOk \in BOOLEAN :
             (\E p \in Slots : s.procs[p] = "gone" /\ s.futures[p].timer = "off") =>
                LET n == start(s, spawnOk)
                IN /\ n.proc # 0
                   /\ s.procs[n.proc] = "gone"
                   /\ n.procs[n.proc] = IF spawnOk THEN "running" ELSE "failed"
                   /\ n.futures[n.readyPromise].state = "pending"

C3_Witness ==
    /\ lastOp.op = "stop"
    /\ lastOp.ret # 0
    /\ procs[lastOp.ret] = "exiting"
    /\ \E x \in emitted : x.kind = "eval" /\ x.err = "Native R session stopped"
    /\ proc = 0

\* C4: a start() called while an earlier start() still waits for the init
\* message returns the same future, spawns nothing, and leaves the id
\* counter and the pending table alone.
C4_StartIdempotent ==
    (readyPromise # 0 /\ ~initialized) =>
        \A spawnOk \in BOOLEAN :
            LET s == start(W, spawnOk)
            IN /\ s.readyPromise = readyPromise
               /\ s.proc = proc
               /\ s.procs = procs
               /\ s.futures = futures
               /\ s.nextId = nextId
               /\ s.pending = pending
               /\ s.stdin = stdin

\* The bootstrap statement has been evaluated, so this start() is not the
\* one that spawned the subprocess.
C4_Witness ==
    /\ lastOp.op = "start"
    /\ lastOp.ret = readyPromise
    /\ readyPromise # 0
    /\ ~initialized
    /\ stdin = <<>>

\* The init-error lines the subprocess may print.
InitErrorLines ==
    {l \in OtherLines \cup UNION {Range(Bootstrap(m).out) : m \in PackageSets} :
        l.type = "init" /\ l.status # "ok"}

\* C5: an init-error line makes start() reject with an init error whose
\* missing list is the list the line reports, when it reports a non-empty
\* array; the 'exit' handler, the 'error' handler and the init timer make it
\* reject with an init error whose missing list is empty.
C5_InitErrorMissingList ==
    (readyPromise # 0 /\ ~initialized) =>
        /\ \A line \in InitErrorLines :
              \E x \in handleLine(W, line).emitted :
                 /\ x.kind = "start" /\ x.idx = readyPromise /\ x.state = "rejected"
                 /\ (line.missing.tag = "arr" /\ line.missing.val # <<>>)
                       => x.missing = line.missing.val
        /\ \A s \in {onExit(W), onError(W), initTimeout(W)} :
              \E x \in s.emitted :
                 /\ x.kind = "start" /\ x.idx = readyPromise /\ x.state = "rejected"
                 /\ x.missing = <<>>

C5_Witness ==
    /\ lastOp.op = "engine"
    /\ lastOp.ret = BootItem
    /\ \E x \in emitted :
          x.kind = "start" /\ x.state = "rejected" /\ x.missing = <<"DDIwR">>

\* C6: evalRVoid / evalRString on a worker that has no process or is not
\* initialized reject at once and change nothing: no id is taken, nothing is
\* added to the pending table or written to the subprocess.
C6_NotReadyFailsFast ==
    (proc = 0 \/ ~initialized) =>
        \A ok \in BOOLEAN :
            LET s == evalR(W, ok)
            IN /\ s.emitted = {Settlement("eval", 0, "rejected", <<>>,
                                          "Native R session is not initialized")}
               /\ Silent(s) = W

C6_Witness ==
    /\ lastOp.op \in EvalOps
    /\ proc # 0
    /\ ~initialized
    /\ \E x \in emitted : x.err = "Native R session is not initialized"

\* C7: with requests pending, a response line with the id of one of them
\* settles exactly that request (resolved on status ok, rejected otherwise),
\* whichever of them it is, and leaves the others pending under their ids.
C7_MatchedById ==
    initialized =>
        \A e \in pending, status \in {"ok", "error"} :
            LET s == handleLine(W, ResponseLine(e[1], status))
                settled == IF status = "ok" THEN "resolved" ELSE "rejected"
            IN /\ requests[e[2]].id = e[1]
               /\ requests[e[2]].state = "pending"
               /\ s.requests[e[2]].state = settled
               /\ \A r \in DOMAIN requests \ {e[2]} : s.requests[r] = requests[r]
               /\ s.pending = pending \ {e}
               /\ \A x \in s.emitted : x.kind = "eval" /\ x.idx = e[2] /\ x.state = settled
               /\ s.initialized

\* The second request was answered while the first is still pending.
C7_Witness ==
    /\ lastOp.op = "line"
    /\ Len(requests) >= 2
    /\ <<1, 1>> \in pending
    /\ requests[2].state = "resolved"
    /\ \E x \in emitted : x.kind = "eval" /\ x.idx = 2

\* C8: once R has evaluated the expression of a request and the expression
\* failed, the request is not left pending (it was rejected with an
\* evaluation error).
C8_FailureIsReported ==
    (lastOp.op = "engine" /\ lastOp.fails) =>
        \A e \in pending : e[1] # lastOp.ret

\* C9: a call of getOrBuildDDITree that follows a call which computed the
\* same signature and left the cache holding it returns the payload that
\* call returned, and does not invoke the build function.
C9_SameSignatureServedFromCache ==
    (last.done /\ last.repeat) => (~last.built /\ last.agrees)

\* C10: a call that finds the cache holding no signature, or a signature
\* other than the one it computed, invokes the build function and returns
\* the build's fresh result.
C10_SignatureChangeRebuilds ==
    (last.done /\ ~last.match) => (last.built /\ last.ret = last.fresh)

C10_Witness ==
    /\ last.done
    /\ last.stale
    /\ last.built
    /\ last.ret = last.fresh
    /\ last.fresh.kind # "none"

\* C11: whichever step of saveToCache fails (creating the directory, writing
\* the tree, the elements or the metadata), the call of getOrBuildDDITree
\* returns the freshly built result and no error of the save reaches the
\* caller.
C11_SaveFailureIsSwallowed ==
    /\ last.raised # "save"
    /\ (last.done /\ last.built) => last.ret = last.fresh

C11_Witness ==
    /\ last.done
    /\ last.built
    /\ ~last.kept
    /\ last.ret = last.fresh
    /\ files.meta.st = "corrupt"

\* C12: normalize_children of a raw list whose names are x, x.1, x.2 returns
\* exactly 3 nodes, all named x, which carry the values of x, x.1 and x.2 in
\* that order.
C12_SuffixedKeysGrouped ==
    (normOp = "children" /\ names(raw) = <<X, X1, X2>>) =>
        /\ Len(out) = 3
        /\ \A i \in 1..3 : out[i] = normalize_element(X, raw.e[i].x)

\* C13: normalize_element of a raw list with the entries .attributes, y,
\* x.1, x.2 (an atomic child and suffixed repeated children without a bare
\* name) returns a node with those attributes and exactly one child per raw
\* name, in order: y, x, x, each carrying the value of its entry.
C13_SuffixedChildrenKept ==
    (normOp = "element" /\ names(raw) = <<AttributesKey, Y, X1, X2>>) =>
        /\ node.name = Container
        /\ node.attributes = AttributeList
        /\ node.value = Null
        /\ node.hasChildren
        /\ Len(node.children) = 3
        /\ node.children[1] = normalize_element(Y, raw.e[2].x)
        /\ node.children[2] = normalize_element(X, raw.e[3].x)
        /\ node.children[3] = normalize_element(X, raw.e[4].x)

\* The nodes of a tree.
RECURSIVE NodesOf(_)
NodesOf(n) ==
    {n} \cup UNION {NodesOf(n.children[i]) : i \in DOMAIN n.children}

\* C14: no node of a tree that normalize_element or normalize_codebook
\* returns, and no node that normalize_children returns, carries both a value
\* and a list of children.
C14_ValueOrChildren ==
    /\ normOp \in {"element", "codebook"} =>
          \A n \in NodesOf(node) : ~(n.value # Null /\ n.hasChildren)
    /\ normOp = "children" =>
          \A i \in DOMAIN out :
             \A n \in NodesOf(out[i]) : ~(n.value # Null /\ n.hasChildren)

C14_Witness ==
    /\ normOp = "element"
    /\ node.hasChildren
    /\ node.value = Null
    /\ \E i \in DOMAIN node.children :
          /\ node.children[i].value # Null
          /\ ~node.children[i].hasChildren
    /\ \E i \in DOMAIN node.children :
          /\ node.children[i].hasChildren
          /\ Len(node.children[i].children) > 0
    /\ \E i \in DOMAIN raw.e : raw.e[i].k = ValueKey

\* A normalized tree re-expressed as a raw value: the attributes under
\* .attributes, the text of a leaf under value, and the children under their
\* names, the k-th further sibling of a name under name.k.
Decimal == <<"1", "2", "3", "4", "5", "6", "7", "8", "9">>

SiblingKey(children, i) ==
    LET k == Cardinality({j \in 1..(i - 1) : children[j].name = children[i].name})
    IN IF k = 0 THEN children[i].name
       ELSE children[i].name \o <<".", Decimal[k]>>

RECURSIVE ToRaw(_)
ToRaw(n) ==
    List((IF n.attributes # Null THEN <<Entry(AttributesKey, n.attributes)>> ELSE <<>>)
         \o (IF n.value # Null THEN <<Entry(ValueKey, n.value)>> ELSE <<>>)
         \o [i \in DOMAIN n.children |->
                Entry(SiblingKey(n.children, i), ToRaw(n.children[i]))])

\* A tree of the shape of a normalized node: the value of a leaf is a text.
Textual(n) ==
    \A m \in NodesOf(n) :
        m.value # Null => (m.value.t = "atom" /\ m.value.ra = "")

\* C15: a tree returned by normalize_codebook, re-expressed as a raw list and
\* given to normalize_codebook again, comes back identical.
C15_Idempotent ==
    (normOp = "codebook" /\ Textual(node)) =>
        normalize_codebook(ToRaw(node)) = node

\* C16: an operation (the startup catalog build or a codebook load) whose
\* native run failed has cleared the native binary reference and gone to the
\* embedded engine: it awaits a run of initWebR that is in flight, or runs on
\* the initialized embedded engine, or has finished with the embedded
\* engine's outcome; it never finishes with the native failure.
C16_FallbackIsTransparent ==
    \A o \in DOMAIN ops :
        ops[o].nativeFailed =>
            /\ ~nativeRscriptPath
            /\ ops[o].pc \in {"webrInit", "webrLoad", "done"}
            /\ ops[o].pc = "webrInit" =>
                  /\ ops[o].awaits \in DOMAIN runs
                  /\ runs[ops[o].awaits] = "pending"
            /\ ops[o].pc = "webrLoad" => webRInitialized
            /\ ops[o].pc = "done" =>
                  /\ ops[o].by = "webr"
                  /\ ops[o].outcome = "ok" => webRInitialized

C16_Witness ==
    /\ ops[Startup].nativeFailed
    /\ ops[Startup].pc = "done"
    /\ ops[Startup].by = "webr"
    /\ \E l \in Loads :
          /\ ops[l].nativeFailed
          /\ ops[l].pc = "done"
          /\ ops[l].by = "webr"
          /\ ops[l].outcome = "ok"

\* C17: the backend mode read from the settings is the mode in force at
\* launch or the one the user chose last in the settings menu; no native
\* failure and no fallback changes it.
C17_FallbackKeepsPreference ==
    getBackendMode(O) = chosen

C17_Witness ==
    /\ chosen = "native"
    /\ settings = "native"
    /\ ops[Startup].nativeFailed
    /\ \E l \in Loads : ops[l].pc = "done" /\ ops[l].by = "webr" /\ ~ops[l].nativeFailed
    /\ ~nativeRscriptPath
    /\ discovered

\* C18: when no native binary was discovered at startup, no native process
\* is ever spawned and no operation makes a native attempt, whatever the
\* stored backend mode is: every operation goes to the embedded engine.
C18_NoNativeWithoutBinary ==
    (started /\ ~discovered) =>
        /\ ~spawned
        /\ \A o \in DOMAIN ops :
              /\ ~ops[o].nativeFailed
              /\ ops[o].pc # "native"
              /\ ops[o].by \notin {"native", "cache"}

C18_Witness ==
    /\ started
    /\ ~discovered
    /\ getBackendMode(O) = "native"
    /\ ops[Startup].pc = "done"
    /\ ops[Startup].by = "webr"
    /\ \E l \in Loads : ops[l].pc = "done" /\ ops[l].by = "webr" /\ ops[l].outcome = "ok"

\* C19: while a run of initWebR is in flight, ensureWebRInitialized starts
\* no run and hands every caller that run; once a run has resolved, it
\* returns without starting or awaiting any run; at most one run is in flight.
C19_InitMemoized ==
    /\ Cardinality({r \in DOMAIN runs : runs[r] = "pending"}) <= 1
    /\ \A r \in DOMAIN runs :
          runs[r] = "pending" =>
              /\ ensureWebRInitialized(O).awaits = r
              /\ ensureWebRInitialized(O).s = O
    /\ (\E r \in DOMAIN runs : runs[r] = "resolved") =>
          /\ ensureWebRInitialized(O).awaits = 0
          /\ ensureWebRInitialized(O).s = O

C19_Witness ==
    /\ \E r \in DOMAIN runs :
          /\ runs[r] = "pending"
          /\ Cardinality({o \in DOMAIN ops :
                             ops[o].pc = "webrInit" /\ ops[o].awaits = r}) >= 2
    /\ Len(runs) = 1

\* C20: a request that evalRVoid / evalRString registers against a worker
\* that has a process and is initialized is in the pending table, unsettled,
\* when the call returns, whatever stdin.write() returned; and an entry
\* leaves the pending table only in a handler of a stdout line that settles
\* its request, or in the 'exit' handler, the 'error' handler or stop().
C20_PendingUntilResponseOrTeardown ==
    [][/\ (lastOp'.op \in EvalOps /\ ~NotInitialized(W)) =>
             /\ <<nextId, Len(requests) + 1>> \in pending'
             /\ requests'[Len(requests) + 1].state = "pending"
             /\ emitted' = {}
       /\ \A e \in pending :
             e \notin pending' =>
                 \/ lastOp'.op \in {"exit", "error", "stop"}
                 \/ /\ lastOp'.op \in {"engine", "line"}
                    /\ \E x \in emitted' : x.kind = "eval" /\ x.idx = e[2]]_vars

\* The lines that are no protocol message: empty, not JSON, or JSON that is
\* no init message and has no numeric id or an id with no pending entry.
Discarded(line) ==
    \/ line.wf \in {"empty", "text"}
    \/ /\ line.wf = "json"
       /\ line.type # "init"
       /\ line.id = 0 \/ \A e \in pending : e[1] # line.id

\* C21: in every state of the worker, a stdout line that is empty, is not
\* JSON, has no numeric id or has an id with no pending entry, and data on
\* the error stream, settle nothing and change no field of the worker, the
\* start future or the pending table.
C21_MalformedLinesDiscarded ==
    /\ \A line \in OtherLines : Discarded(line) => handleLine(W, line) = W
    /\ onStderr(W) = W

\* Such a line arrived while a request was pending.
C21_Witness ==
    /\ lastOp.op \in {"line", "stderr"}
    /\ initialized
    /\ pending # {}
    /\ \E line \in OtherLines : Discarded(line) /\ line.id # 0
    /\ emitted = {}

\* C22: a line shaped like a response changes nothing while the worker is
\* not initialized, and an init line changes nothing once it is. The worker
\* gets Ready (a process and initialized) only in a line handler that reads
\* an init ok line for the process it holds while not initialized; it holds
\* a new process only by a start() that spawns one, not initialized; and a
\* worker that stops being initialized, or whose start was rejected, has let
\* go of its process.
C22_ReadyOnlyByInitOk ==
    /\ [](IF initialized
           THEN \A line \in {InitOkLine} \cup InitErrorLines : handleLine(W, line) = W
           ELSE \A i \in 1..MaxReqs, st \in {"ok", "error"} :
                   handleLine(W, ResponseLine(i, st)) = W)
    /\ [][
          /\ (NotInitialized(W) /\ ~NotInitialized(W)') =>
                /\ lastOp'.op \in {"engine", "line"}
                /\ proc # 0 /\ proc' = proc /\ ~initialized
                /\ procs[proc] = "running"
                /\ emitted' = handleLine(W, InitOkLine).emitted
          /\ (proc' # 0 /\ proc' # proc) =>
                /\ lastOp'.op = "start"
                /\ proc = 0
                /\ procs[proc'] = "gone"
                /\ ~initialized'
          /\ (initialized /\ ~initialized') => proc' = 0
          /\ (\E x \in emitted' : x.kind = "start" /\ x.state = "rejected") =>
                /\ proc' = 0
                /\ ~initialized'
       ]_vars

\* A second process became Ready while the first, stopped, is still exiting.
C22_Witness ==
    /\ lastOp.op \in {"engine", "line"}
    /\ initialized
    /\ proc # 0
    /\ Settlement("start", proc, "resolved", <<>>, "") \in emitted
    /\ \E p \in Slots : p # proc /\ procs[p] = "exiting"

\* C23: the init timer of a start() is off once the future of that start is
\* resolved or rejected, so it is armed only while the future is unsettled;
\* and when it fires, that future is rejected and the subprocess of that
\* start is not left running.
C23_DeadlineOnlyWhileUnsettled ==
    \A f \in Slots :
        /\ futures[f].state \in {"resolved", "rejected"} => futures[f].timer = "off"
        /\ futures[f].timer = "armed" =>
              LET s == initTimeout([W EXCEPT !.futures[f].timer = "off"])
              IN /\ futures[f].state = "pending"
                 /\ s.futures[f].state = "rejected"
                 /\ s.procs[f] # "running"

\* C24: a call of getOrBuildDDITree that returns a bundle from the cache
\* returns a tree and elements that one call wrote together.
C24_HitNeverMixesBuilds ==
    (last.done /\ ~last.built /\ last.ret.kind = "bundle") => sameBuild

\* The names of a raw list that are left when .attributes and .extra are
\* taken away.
Remaining(x) == SelectSeq(names(x), LAMBDA k : k \notin {AttributesKey, ExtraKey})

\* C25: normalize_element of an atomic value returns a leaf carrying it.
\* For a raw list it returns a leaf carrying the entry named value, and no
\* children, exactly when value is the only name left after .attributes and
\* .extra are taken away; otherwise it returns no value and a children list
\* with one child per name left, each name left having a child named by its
\* base name.
C25_LeafRule ==
    /\ \A v \in {Atom("a"), Atom("b")} :
          LET n == normalize_element(Container, v)
          IN n.value = v /\ ~n.hasChildren
    /\ normOp = "element" =>
          LET left == Remaining(raw)
          IN IF left # <<>> /\ \A i \in DOMAIN left : left[i] = ValueKey
             THEN /\ node.value = Dollar(raw, ValueKey)
                  /\ ~node.hasChildren
             ELSE /\ node.value = Null
                  /\ node.hasChildren
                  /\ Len(node.children) = Len(left)
                  /\ \A i \in DOMAIN left :
                        \E c \in DOMAIN node.children :
                            node.children[c].name = StripSuffix(left[i])
                  /\ \A c \in DOMAIN node.children :
                        \E i \in DOMAIN left :
                            node.children[c].name = StripSuffix(left[i])

\* What a handler leaves of the instance in force in s: its process, its
\* start() future, its Ready flag and its requests (cover.ts:51-58).
Instance(s) ==
    [proc |-> s.proc, reader |-> s.reader, readyPromise |-> s.readyPromise,
     initialized |-> s.initialized, pending |-> s.pending,
     futures |-> s.futures, requests |-> s.requests,
     running |-> IF s.proc = 0 THEN "none" ELSE s.procs[s.proc]]

\* C26: when stop() was followed by a start() that spawned a new process, the
\* 'exit' and 'error' events still due from an earlier process leave the new
\* instance as it is: its process, its start() future, its Ready flag and its
\* pending requests are what they were before the event was handled.
C26_LateEventsSpareNewInstance ==
    [][
        (lastOp.op = "stop" /\ lastOp'.op = "start" /\ proc' # 0) =>
            \A p \in Slots \ {proc'} :
                /\ procs'[p] = "exiting" =>
                      Instance(onExit([W' EXCEPT !.procs[p] = "gone"])) = Instance(W')
                /\ procs'[p] = "failed" =>
                      Instance(onError([W' EXCEPT !.procs[p] = "gone"])) = Instance(W')
    ]_vars

\* ------------------------------------------------------------- start() futures
\* A worker that is started and stopped and sent no request: the steps that
\* can settle a start() future. The process evaluates what is on its stdin,
\* Node delivers the 'exit' or 'error' of a dead process, and a timer that
\* was not cleared fires after its 8000 ms (cover.ts:106); start() and stop()
\* are the caller's and happen or not.
NextStart ==
    \/ Start
    \/ Stop
    \/ EngineStep
    \/ OtherLine
    \/ ProcCrash
    \/ ProcExit
    \/ ProcError
    \/ TimerFire

Scheduling ==
    /\ WF_vars(EngineStep)
    /\ WF_vars(ProcExit)
    /\ WF_vars(ProcError)
    /\ WF_vars(TimerFire)

SpecStart == Init /\ [][NextStart]_vars /\ Scheduling

\* C27: every future returned by start() is eventually resolved or rejected;
\* in particular the future of a start() whose worker is stopped while it is
\* still Starting is rejected rather than left pending forever.
C27_StartFutureSettles ==
    \A f \in Slots :
        (futures[f].state = "pending") ~> (futures[f].state \in {"resolved", "rejected"})

\* C28: the init timer armed by one start() can only fail that start(): when
\* it fires, the future and the subprocess of every other start() are left as
\* they are, and so is the instance in force when it belongs to another
\* start().
C28_TimerFailsOnlyItsStart ==
    \A f \in Slots :
        futures[f].timer = "armed" =>
            LET fired == [W EXCEPT !.futures[f].timer = "off"]
                s == initTimeout(fired)
            IN /\ \A g \in Slots \ {f} :
                     /\ s.futures[g] = futures[g]
                     /\ s.procs[g] = procs[g]
               /\ readyPromise \notin {0, f} => Instance(s) = Instance(fired)

\* C29: when loads of different files run concurrently on the embedded
\* engine, every load that has got its directory mounted returns the tree of
\* its own file: no other load takes the mount from /hostfile or overwrites
\* the global codeBook before the load has read its tree back.
C29_ConcurrentLoadsReturnOwnTree ==
    (\A k, l \in Loads : viaWebR[k].file = viaWebR[l].file => (k = l \/ viaWebR[k].pc = "idle")) =>
        \A l \in Loads :
            /\ viaWebR[l].pc = "returned" => viaWebR[l].ret = TreeOf(viaWebR[l].file)
            /\ viaWebR[l].pc = "rejected" => viaWebR[l].at \in {"mkdir", "mount"}

\* C30: the pending table is empty whenever the worker is not Ready (no
\* process, or not initialized); every request whose promise is unsettled is
\* in the table, so nothing left Ready without rejecting it; and the
\* pending.clear() of a start() takes no unsettled request out of the table.
C30_PendingEmptyUnlessReady ==
    /\ NotInitialized(W) => pending = {}
    /\ \A r \in DOMAIN requests :
          requests[r].state = "pending" => \E e \in pending : e[2] = r
    /\ \A spawnOk \in BOOLEAN :
          (AlreadyStarted(W) \/ FreeSlots(W) # {}) =>
              LET s == start(W, spawnOk)
              IN \A e \in pending :
                    requests[e[2]].state = "pending" => e \in s.pending

\* A worker with requests pending has left Ready and has rejected them.
C30_Witness ==
    /\ NotInitialized(W)
    /\ pending = {}
    /\ lastOp.op \in {"stop", "exit", "timeout"}
    /\ Cardinality({x \in emitted : x.kind = "eval" /\ x.idx # 0 /\ x.state = "rejected"}) >= 1
    /\ \E r \in DOMAIN requests : requests[r].state = "rejected"

====
